---- MODULE Spec2Model ----
(***************************************************************************)
(* egui-euc: a software painter for egui built on the euc rasterizer.      *)
(*                                                                         *)
(* Painter owns a texture store (HashMap<TextureId, SoftwareTexture>).     *)
(* paint_and_update_textures applies the set-deltas, renders the clipped   *)
(* primitives into a fresh colour buffer through a Scissor view, then      *)
(* applies the frees.  A panic ends the call without a return value.       *)
(*                                                                         *)
(* Value model.  A pixel keeps two of its four channels, red and alpha     *)
(* (the code treats r, g and b alike).  A byte channel (Color32, packed    *)
(* u32) has the three levels 0..2 (0, 128, 255); an f32 channel (Rgba) is  *)
(* a natural number counting quarters (4 is 1.0).  The gamma curve of the  *)
(* byte <-> float conversion is left out: decoding scales, encoding        *)
(* rounds and saturates.  Clip-rectangle coordinates and the pixel ratio   *)
(* are counted in halves (2 is 1.0).  Texture sampling options are not     *)
(* modelled; every sampler returns the texel at (0, 0).                    *)
(***************************************************************************)
EXTENDS Integers, Sequences, FiniteSets, TLC

VARIABLES
    textures,            \* Painter.textures: texture id -> SoftwareTexture
    pc,                  \* position in the running call
    textures_delta,      \* argument: [set: Seq of <<id, delta>>, free: Seq of id]
    clipped_primitives,  \* argument: Seq of ClippedPrimitive
    i,                   \* position of the for loop that is running
    color,               \* render's colour buffer (inner target of the Scissor)
    depth,               \* render's depth buffer
    sc,                  \* the Scissor view built for the current item
    image,               \* value returned by the last completed call
    err,                 \* panic message, "" when none
    entry,               \* the texture store when the running call was entered
    freed,               \* identifiers removed by a free and not created since
    live,                \* identifiers a set-delta was applied to, with no free
                         \* naming them applied since
    call,                \* pure-function harness: the arguments drawn
    result               \* pure-function harness: what was computed / accessed

vars == <<textures, pc, textures_delta, clipped_primitives, i, color, depth,
          sc, image, err, entry, freed, live, call, result>>

-----------------------------------------------------------------------------
(* Bounds *)

MaxSet == 2        \* set-deltas per call
MaxItems == 2      \* draw items per call
MaxFree == 2       \* frees per call
MaxW == 2          \* screen width in pixels
MaxH == 2          \* screen height in pixels
MaxTexW == 2       \* texture / image width
MaxTexH == 2       \* texture / image height

TexIds == {"T0", "T1"}

Min(a, b) == IF a < b THEN a ELSE b
Max(a, b) == IF a > b THEN a ELSE b

\* every sequence over S of length at most n
SeqUpTo(S, n) == UNION {[1..k -> S] : k \in 0..n}

\* the index set of a Buffer2d / image of the given size
Pixels(size) == (0..(size[1] - 1)) \X (0..(size[2] - 1))

-----------------------------------------------------------------------------
(* Colour conversions (ecolor) *)

\* Color32 <<r, a>> -> Rgba <<r, a>>; the premultiplication is kept as it is
Rgba_from_Color32(c) == <<2 * c[1], 2 * c[2]>>

\* f32 channel -> byte channel: round to nearest (half up), saturate
u8_from_f32(x) == Min(2, (x + 1) \div 2)

\* Rgba::to_srgba_unmultiplied: divide the colour by alpha (unless alpha is
\* zero), then encode; the quotient is rounded once
to_srgba_unmultiplied(c) ==
    <<IF c[2] = 0 THEN u8_from_f32(c[1])
                  ELSE Min(2, (4 * c[1] + c[2]) \div (2 * c[2])),
      u8_from_f32(c[2])>>

RED == <<4, 4>>            \* Rgba::RED, red and alpha channel
WHITE32 == <<2, 2>>        \* Color32::WHITE
GRAY32 == <<1, 2>>         \* an opaque Color32 that is not red in its r channel

-----------------------------------------------------------------------------
(* EguiMeshEucPipeline *)

\* fragment: vertex colour times sampled texel, channel-wise
fragment(vcolor, sample) ==
    <<(vcolor[1] * sample[1]) \div 4, (vcolor[2] * sample[2]) \div 4>>

\* blend: the stored pixel is read as premultiplied, composited with the
\* fragment ("over"), and packed unmultiplied
blend(screen, frag) ==
    LET s == Rgba_from_Color32(screen)
        r == frag[1] + (s[1] * (4 - frag[2])) \div 4
        a == s[2] + (frag[2] * (4 - s[2])) \div 4
    IN  to_srgba_unmultiplied(<<r, a>>)

\* Pipeline::depth_mode is not overridden: euc's default, no test, no write
depth_mode == "NONE"

-----------------------------------------------------------------------------
(* Scissor *)

\* mutant: the max edge is let through
bounds_check_inclusive(s, x, y) ==
    x >= s.x /\ y >= s.y /\ x <= s.x + s.width /\ y <= s.y + s.height

\* Scissor::bounds_check
bounds_check(s, x, y) ==
    x >= s.x /\ y >= s.y /\ x < s.x + s.width /\ y < s.y + s.height

\* mutant: the cast to i32 without the rounding (truncation toward zero)
round_truncating(n) == IF n >= 0 THEN n \div 4 ELSE -((-n) \div 4)

\* f32::round of n/4 (half away from zero), as i32
round(n) == IF n >= 0 THEN (2 * n + 4) \div 8 ELSE -((4 - 2 * n) \div 8)

\* Ord::clamp
clamp(v, lo, hi) == IF v < lo THEN lo ELSE IF v > hi THEN hi ELSE v

\* mutant: the max corner is passed where the extent is expected
from_clip_rect_corner(size, pixels_per_point, clip_rect) ==
    LET min_x == clamp(round(pixels_per_point * clip_rect.min[1]), 0, size[1])
        min_y == clamp(round(pixels_per_point * clip_rect.min[2]), 0, size[2])
        max_x == clamp(round(pixels_per_point * clip_rect.max[1]), min_x, size[1])
        max_y == clamp(round(pixels_per_point * clip_rect.max[2]), min_y, size[2])
    IN  [x |-> min_x, y |-> min_y, width |-> max_x, height |-> max_y]

\* Scissor::from_clip_rect: scale to pixels, round, clamp
from_clip_rect(size, pixels_per_point, clip_rect) ==
    LET min_x == clamp(round(pixels_per_point * clip_rect.min[1]), 0, size[1])
        min_y == clamp(round(pixels_per_point * clip_rect.min[2]), 0, size[2])
        max_x == clamp(round(pixels_per_point * clip_rect.max[1]), min_x, size[1])
        max_y == clamp(round(pixels_per_point * clip_rect.max[2]), min_y, size[2])
    IN  [x |-> min_x, y |-> min_y,
         width |-> Max(max_x - min_x, 0), height |-> Max(max_y - min_y, 0)]

\* Ord::clamp asserts min <= max: the four calls of from_clip_rect meet it
clamp_ok(size, pixels_per_point, clip_rect) ==
    LET min_x == clamp(round(pixels_per_point * clip_rect.min[1]), 0, size[1])
        min_y == clamp(round(pixels_per_point * clip_rect.min[2]), 0, size[2])
    IN  /\ 0 <= size[1] /\ 0 <= size[2]
        /\ min_x <= size[1] /\ min_y <= size[2]

\* Texture::read / Target::read_exclusive_unchecked of the view
scissor_read(s, inner, p) == inner[p]

\* Target::write_exclusive_unchecked of the view
scissor_write(s, inner, p, texel) ==
    IF bounds_check(s, p[1], p[2]) THEN [inner EXCEPT ![p] = texel] ELSE inner

-----------------------------------------------------------------------------
(* SoftwareTexture *)

\* ImageDelta::is_whole
is_whole(delta) == delta.pos = <<>>

\* ImageDelta::full
full(img) == [image |-> img, pos |-> <<>>]

\* mutant: the x loop stops one column early
write_patch_short(self, delta) ==
    LET off == IF delta.pos = <<>> THEN <<0, 0>> ELSE delta.pos
        img == delta.image
    IN  [size |-> self.size,
         pixels |-> [p \in Pixels(self.size) |->
            LET q == <<p[1] - off[1], p[2] - off[2]>>
            IN  IF q \in Pixels(<<img.size[1] - 1, img.size[2]>>)
                THEN Rgba_from_Color32(img.pixels[q])
                ELSE self.pixels[p]]]

\* the copy loop of update: every pixel of the patch is written at its offset
write_patch(self, delta) ==
    LET off == IF delta.pos = <<>> THEN <<0, 0>> ELSE delta.pos
        img == delta.image
    IN  [size |-> self.size,
         pixels |-> [p \in Pixels(self.size) |->
            LET q == <<p[1] - off[1], p[2] - off[2]>>
            IN  IF q \in Pixels(img.size)
                THEN Rgba_from_Color32(img.pixels[q])
                ELSE self.pixels[p]]]

\* SoftwareTexture::new
SoftwareTexture_new(img) ==
    write_patch([size |-> img.size, pixels |-> [p \in Pixels(img.size) |-> RED]],
                full(img))

\* mutant: a whole image of another size is copied without reallocating
update_in_place(self, delta) == write_patch(self, delta)

\* SoftwareTexture::update
update(self, delta) ==
    IF is_whole(delta) /\ delta.image.size # self.size
    THEN SoftwareTexture_new(delta.image)
    ELSE write_patch(self, delta)

-----------------------------------------------------------------------------
(* Arguments of paint_and_update_textures *)

screen_size == <<MaxW, MaxH>>
pixels_per_point == 2                      \* 1.0

Image1 == [size |-> <<1, 1>>, pixels |-> [p \in Pixels(<<1, 1>>) |-> WHITE32]]

\* a whole image, or a patch at (0, 0)
Deltas1 == {full(Image1), [image |-> Image1, pos |-> <<0, 0>>]}

Rect(x0, y0, x1, y1) == [min |-> <<x0, y0>>, max |-> <<x1, y1>>]
FullRect == Rect(0, 0, 2 * MaxW, 2 * MaxH)
ClipRects1 == {FullRect,
               Rect(0, 0, 2, 2 * MaxH),                        \* left column
               Rect(0, 0, 2 * MaxW, 2),                        \* top row
               Rect(2 * MaxW + 2, 0, 2 * MaxW + 4, 2 * MaxH)}  \* right of the screen

\* vertex colours (Rgba, premultiplied): transparent, half, opaque, opaque dark
VertexColors == {<<0, 0>>, <<1, 2>>, <<4, 4>>, <<2, 4>>}
Covers == {Pixels(screen_size), {<<0, 0>>}}

Mesh(rect, id, vcolor, cover) ==
    [kind |-> "Mesh", clip_rect |-> rect, texture_id |-> id,
     vcolor |-> vcolor, cover |-> cover]
Callback == [kind |-> "Callback", clip_rect |-> FullRect, texture_id |-> "T0",
             vcolor |-> <<0, 0>>, cover |-> {}]

LifecycleItems == {Mesh(FullRect, id, <<4, 4>>, Pixels(screen_size)) : id \in TexIds}
DrawItems ==
    {Mesh(FullRect, "T0", c, cv) : c \in VertexColors, cv \in Covers}
    \cup {Mesh(r, "T0", c, Pixels(screen_size)) :
             r \in ClipRects1, c \in {<<4, 4>>, <<2, 4>>}}
    \cup {Callback}

\* calls that exercise the texture store, and calls that exercise drawing
Calls ==
    [set : SeqUpTo(TexIds \X Deltas1, MaxSet),
     free : SeqUpTo(TexIds, MaxFree),
     items : SeqUpTo(LifecycleItems, MaxItems)]
    \cup
    [set : {<<>>, << <<"T0", full(Image1)>> >>},
     free : {<<>>},
     items : SeqUpTo(DrawItems, MaxItems)]

-----------------------------------------------------------------------------
(* euc: what Pipeline::render does with one mesh *)

depth_pass(z, d) == depth_mode = "NONE" \/ z < d

\* every covered pixel that passes the depth test is read through the view,
\* blended with the fragment and written back through the view
pipeline_render(item, sample, s, col, dep) ==
    LET frag == fragment(item.vcolor, sample)
        hit(p) == p \in item.cover /\ depth_pass(0, dep[p])
    IN  [color |-> [p \in DOMAIN col |->
                      IF hit(p)
                      THEN scissor_write(s, col, p,
                                         blend(scissor_read(s, col, p), frag))[p]
                      ELSE col[p]],
         depth |-> [p \in DOMAIN dep |->
                      IF hit(p) /\ depth_mode # "NONE" THEN 0 ELSE dep[p]]]

-----------------------------------------------------------------------------
(* Painter *)

\* HashMap::new
EmptyMap == [k \in {} |-> k]

NoScissor == [x |-> 0, y |-> 0, width |-> 0, height |-> 0]
NoCall == [fn |-> "none"]

Init ==
    /\ textures = EmptyMap
    /\ pc = "idle"
    /\ textures_delta = [set |-> <<>>, free |-> <<>>]
    /\ clipped_primitives = <<>>
    /\ i = 1
    /\ color = <<>>
    /\ depth = <<>>
    /\ sc = NoScissor
    /\ image = <<>>
    /\ err = ""
    /\ entry = EmptyMap
    /\ freed = {}
    /\ live = {}
    /\ call = NoCall
    /\ result = <<>>

\* HashMap::insert
insert(map, k, v) == [x \in DOMAIN map \cup {k} |-> IF x = k THEN v ELSE map[x]]

\* HashMap::remove
remove(map, k) == [x \in DOMAIN map \ {k} |-> map[x]]

Panic(msg) ==
    /\ pc' = "panicked"
    /\ err' = msg

\* paint_and_update_textures is entered
PaintCall ==
    /\ pc = "idle"
    /\ \E c \in Calls :
          /\ textures_delta' = [set |-> c.set, free |-> c.free]
          /\ clipped_primitives' = c.items
    /\ pc' = "allocate_textures"
    /\ i' = 1
    /\ entry' = textures
    /\ freed' = freed
    /\ live' = live
    /\ color' = <<>>
    /\ depth' = <<>>
    /\ sc' = NoScissor
    /\ image' = <<>>
    /\ UNCHANGED <<textures, err, call, result>>

\* mutant: the test of the delta's kind is inverted
AllocStep_inverted ==
    /\ pc = "allocate_textures"
    /\ i <= Len(textures_delta.set)
    /\ LET id == textures_delta.set[i][1]
           delta == textures_delta.set[i][2]
       IN  \/ /\ id \in DOMAIN textures
              /\ textures' = [textures EXCEPT ![id] = update(@, delta)]
              /\ i' = i + 1
              /\ live' = live \cup {id}
              /\ UNCHANGED <<pc, err, freed>>
           \/ /\ id \notin DOMAIN textures
              /\ ~is_whole(delta)
              /\ textures' = insert(textures, id, SoftwareTexture_new(delta.image))
              /\ freed' = freed \ {id}
              /\ live' = live \cup {id}
              /\ i' = i + 1
              /\ UNCHANGED <<pc, err>>
           \/ /\ id \notin DOMAIN textures
              /\ is_whole(delta)
              /\ Panic("Attempted partial update on absent texture")
              /\ UNCHANGED <<textures, i, freed, live>>
    /\ UNCHANGED <<textures_delta, clipped_primitives, color, depth, sc, image,
                   entry, call, result>>

\* allocate_textures: one turn of its loop
AllocStep ==
    /\ pc = "allocate_textures"
    /\ i <= Len(textures_delta.set)
    /\ LET id == textures_delta.set[i][1]
           delta == textures_delta.set[i][2]
       IN  \/ /\ id \in DOMAIN textures
              /\ textures' = [textures EXCEPT ![id] = update(@, delta)]
              /\ i' = i + 1
              /\ live' = live \cup {id}
              /\ UNCHANGED <<pc, err, freed>>
           \/ /\ id \notin DOMAIN textures
              /\ is_whole(delta)
              /\ textures' = insert(textures, id, SoftwareTexture_new(delta.image))
              /\ freed' = freed \ {id}
              /\ live' = live \cup {id}
              /\ i' = i + 1
              /\ UNCHANGED <<pc, err>>
           \/ /\ id \notin DOMAIN textures
              /\ ~is_whole(delta)
              /\ Panic("Attempted partial update on absent texture")
              /\ UNCHANGED <<textures, i, freed, live>>
    /\ UNCHANGED <<textures_delta, clipped_primitives, color, depth, sc, image,
                   entry, call, result>>

\* allocate_textures returns; render allocates its buffers
RenderBegin ==
    /\ pc = "allocate_textures"
    /\ i > Len(textures_delta.set)
    /\ pc' = "render"
    /\ i' = 1
    /\ color' = [p \in Pixels(screen_size) |-> <<0, 0>>]
    /\ depth' = [p \in Pixels(screen_size) |-> 4]
    /\ UNCHANGED <<textures, textures_delta, clipped_primitives, sc, image, err,
                   entry, freed, live, call, result>>

\* mutant: the list is walked from its end
RenderStep_reversed ==
    /\ pc = "render"
    /\ i <= Len(clipped_primitives)
    /\ LET item == clipped_primitives[Len(clipped_primitives) + 1 - i]
           scissor == from_clip_rect(screen_size, pixels_per_point, item.clip_rect)
       IN  \/ /\ item.kind # "Mesh"
              /\ i' = i + 1
              /\ UNCHANGED <<pc, err, color, depth, sc>>
           \/ /\ item.kind = "Mesh"
              /\ item.texture_id \notin DOMAIN textures
              /\ sc' = scissor
              /\ Panic("Mesh referenced absent texture")
              /\ UNCHANGED <<i, color, depth>>
           \/ /\ item.kind = "Mesh"
              /\ item.texture_id \in DOMAIN textures
              /\ sc' = scissor
              /\ LET out == pipeline_render(item,
                                textures[item.texture_id].pixels[<<0, 0>>],
                                scissor, color, depth)
                 IN  /\ color' = out.color
                     /\ depth' = out.depth
              /\ i' = i + 1
              /\ UNCHANGED <<pc, err>>
    /\ UNCHANGED <<textures, textures_delta, clipped_primitives, image, entry,
                   freed, live, call, result>>

\* mutant: a mesh whose texture is absent is skipped
RenderStep_skip_absent ==
    /\ pc = "render"
    /\ i <= Len(clipped_primitives)
    /\ LET item == clipped_primitives[i]
           scissor == from_clip_rect(screen_size, pixels_per_point, item.clip_rect)
       IN  \/ /\ item.kind # "Mesh" \/ item.texture_id \notin DOMAIN textures
              /\ i' = i + 1
              /\ UNCHANGED <<pc, err, color, depth, sc>>
           \/ /\ item.kind = "Mesh"
              /\ item.texture_id \in DOMAIN textures
              /\ sc' = scissor
              /\ LET out == pipeline_render(item,
                                textures[item.texture_id].pixels[<<0, 0>>],
                                scissor, color, depth)
                 IN  /\ color' = out.color
                     /\ depth' = out.depth
              /\ i' = i + 1
              /\ UNCHANGED <<pc, err>>
    /\ UNCHANGED <<textures, textures_delta, clipped_primitives, image, entry,
                   freed, live, call, result>>

\* render: one turn of its loop
RenderStep ==
    /\ pc = "render"
    /\ i <= Len(clipped_primitives)
    /\ LET item == clipped_primitives[i]
           scissor == from_clip_rect(screen_size, pixels_per_point, item.clip_rect)
       IN  \/ /\ item.kind # "Mesh"
              /\ i' = i + 1
              /\ UNCHANGED <<pc, err, color, depth, sc>>
           \/ /\ item.kind = "Mesh"
              /\ item.texture_id \notin DOMAIN textures
              /\ sc' = scissor
              /\ Panic("Mesh referenced absent texture")
              /\ UNCHANGED <<i, color, depth>>
           \/ /\ item.kind = "Mesh"
              /\ item.texture_id \in DOMAIN textures
              /\ sc' = scissor
              /\ LET out == pipeline_render(item,
                                textures[item.texture_id].pixels[<<0, 0>>],
                                scissor, color, depth)
                 IN  /\ color' = out.color
                     /\ depth' = out.depth
              /\ i' = i + 1
              /\ UNCHANGED <<pc, err>>
    /\ UNCHANGED <<textures, textures_delta, clipped_primitives, image, entry,
                   freed, live, call, result>>

\* render returns the colour buffer
RenderEnd ==
    /\ pc = "render"
    /\ i > Len(clipped_primitives)
    /\ pc' = "free_textures"
    /\ i' = 1
    /\ UNCHANGED <<textures, textures_delta, clipped_primitives, color, depth,
                   sc, image, err, entry, freed, live, call, result>>

\* mutant: the frees are applied as soon as the set-deltas are, before render
FreeStep_before_render ==
    /\ pc = "render"
    /\ i = 1
    /\ \E k \in 1..Len(textures_delta.free) :
          /\ textures_delta.free[k] \in DOMAIN textures
          /\ textures' = remove(textures, textures_delta.free[k])
          /\ freed' = freed \cup {textures_delta.free[k]}
          /\ live' = live \ {textures_delta.free[k]}
    /\ UNCHANGED <<pc, i, textures_delta, clipped_primitives, color, depth, sc,
                   image, err, entry, call, result>>

\* mutant: every turn of the loop removes the first identifier of the list
FreeStep_first ==
    /\ pc = "free_textures"
    /\ i <= Len(textures_delta.free)
    /\ textures' = remove(textures, textures_delta.free[1])
    /\ freed' = IF textures_delta.free[1] \in DOMAIN textures
                THEN freed \cup {textures_delta.free[1]} ELSE freed
    /\ live' = live \ {textures_delta.free[i]}
    /\ i' = i + 1
    /\ UNCHANGED <<pc, textures_delta, clipped_primitives, color, depth, sc,
                   image, err, entry, call, result>>

\* free_textures: one turn of its loop
FreeStep ==
    /\ pc = "free_textures"
    /\ i <= Len(textures_delta.free)
    /\ textures' = remove(textures, textures_delta.free[i])
    /\ freed' = IF textures_delta.free[i] \in DOMAIN textures
                THEN freed \cup {textures_delta.free[i]} ELSE freed
    /\ live' = live \ {textures_delta.free[i]}
    /\ i' = i + 1
    /\ UNCHANGED <<pc, textures_delta, clipped_primitives, color, depth, sc,
                   image, err, entry, call, result>>

\* paint_and_update_textures returns the image; its arguments and locals end
Return ==
    /\ pc = "free_textures"
    /\ i > Len(textures_delta.free)
    /\ pc' = "idle"
    /\ image' = color
    /\ textures_delta' = [set |-> <<>>, free |-> <<>>]
    /\ clipped_primitives' = <<>>
    /\ i' = 1
    /\ color' = <<>>
    /\ depth' = <<>>
    /\ sc' = NoScissor
    /\ UNCHANGED <<textures, err, entry, freed, live, call, result>>

Next ==
    \/ PaintCall
    \/ AllocStep
    \/ RenderBegin
    \/ RenderStep
    \/ RenderEnd
    \/ FreeStep
    \/ Return

Spec == Init /\ [][Next]_vars

TypeOK ==
    /\ DOMAIN textures \subseteq TexIds
    /\ pc \in {"idle", "allocate_textures", "render", "free_textures", "panicked",
              "from_clip_rect", "view", "written", "read"}

-----------------------------------------------------------------------------
(* SoftwareTexture::new / update on every texture and delta:               *)
(* allocate_textures is entered with one set-delta for "T0", the store     *)
(* holding any texture, or none, under that identifier.  A region patch    *)
(* lies within the texture it is applied to.                               *)

Colors32 == {WHITE32, GRAY32}
Sizes == (1..MaxTexW) \X (1..MaxTexH)
Images == UNION {[size : {sz}, pixels : [Pixels(sz) -> Colors32]] : sz \in Sizes}
SoftwareTextures ==
    UNION {[size : {sz},
            pixels : [Pixels(sz) -> {Rgba_from_Color32(c) : c \in Colors32}]] :
           sz \in Sizes}
ImageDeltas ==
    [image : Images, pos : {<<>>} \cup ((0..(MaxTexW - 1)) \X (0..(MaxTexH - 1)))]

\* the patch lies within the texture
Within(delta, size) ==
    /\ delta.pos # <<>>
    /\ delta.pos[1] + delta.image.size[1] <= size[1]
    /\ delta.pos[2] + delta.image.size[2] <= size[2]

InitTexture ==
    /\ textures \in {EmptyMap} \cup {[id \in {"T0"} |-> t] : t \in SoftwareTextures}
    /\ \E delta \in ImageDeltas :
          /\ IF is_whole(delta) \/ "T0" \notin DOMAIN textures
             THEN TRUE
             ELSE Within(delta, textures["T0"].size)
          /\ textures_delta = [set |-> << <<"T0", delta>> >>, free |-> <<>>]
    /\ pc = "allocate_textures"
    /\ clipped_primitives = <<>>
    /\ i = 1
    /\ color = <<>>
    /\ depth = <<>>
    /\ sc = NoScissor
    /\ image = <<>>
    /\ err = ""
    /\ entry = textures
    /\ freed = {}
    /\ live = {}
    /\ call = NoCall
    /\ result = <<>>

NextTexture == AllocStep

SpecTexture == InitTexture /\ [][NextTexture]_vars

-----------------------------------------------------------------------------
(* Scissor on every clip rectangle: a view is built over a buffer and one  *)
(* texel is written and read through it.                                   *)

ClipX == {-2, 0, 1, 3, 2 * MaxW, 2 * MaxW + 2}
ClipY == {-2, 0, 1, 2 * MaxH, 2 * MaxH + 2}
ClipRects == {Rect(x0, y0, x1, y1) : x0 \in ClipX, y0 \in ClipY,
                                      x1 \in ClipX, y1 \in ClipY}
ScreenSizes == (1..MaxW) \X (1..MaxH)
PixelRatios == {2, 3}                      \* 1.0 and 1.5

\* the inner target before the view is used
Inner(size) == [p \in Pixels(size) |-> GRAY32]

InitScissor ==
    /\ call \in [fn : {"from_clip_rect"}, size : ScreenSizes,
                 pixels_per_point : PixelRatios, clip_rect : ClipRects]
    /\ color = Inner(call.size)
    /\ pc = "from_clip_rect"
    /\ sc = NoScissor
    /\ result = <<>>
    /\ textures = EmptyMap
    /\ textures_delta = [set |-> <<>>, free |-> <<>>]
    /\ clipped_primitives = <<>>
    /\ i = 1
    /\ depth = <<>>
    /\ image = <<>>
    /\ err = ""
    /\ entry = EmptyMap
    /\ freed = {}
    /\ live = {}

\* Scissor::from_clip_rect
ScissorNew ==
    /\ pc = "from_clip_rect"
    /\ sc' = from_clip_rect(call.size, call.pixels_per_point, call.clip_rect)
    /\ pc' = "view"
    /\ UNCHANGED <<textures, textures_delta, clipped_primitives, i, color, depth,
                   image, err, entry, freed, live, call, result>>

\* Target::write_exclusive_unchecked through the view
ScissorWrite ==
    /\ pc = "view"
    /\ \E p \in Pixels(call.size) :
          /\ color' = scissor_write(sc, color, p, WHITE32)
          /\ result' = [op |-> "write", p |-> p, texel |-> WHITE32]
    /\ pc' = "written"
    /\ UNCHANGED <<textures, textures_delta, clipped_primitives, i, depth, sc,
                   image, err, entry, freed, live, call>>

\* Texture::read / Target::read_exclusive_unchecked through the view
ScissorRead ==
    /\ pc \in {"view", "written"}
    /\ \E p \in Pixels(call.size) :
          result' = [op |-> "read", p |-> p, texel |-> scissor_read(sc, color, p)]
    /\ pc' = "read"
    /\ UNCHANGED <<textures, textures_delta, clipped_primitives, i, color, depth,
                   sc, image, err, entry, freed, live, call>>

NextScissor ==
    \/ ScissorNew
    \/ ScissorWrite
    \/ ScissorRead

SpecScissor == InitScissor /\ [][NextScissor]_vars

-----------------------------------------------------------------------------
(* Claims about the paint call *)

Range(seq) == {seq[k] : k \in 1..Len(seq)}

\* C1: the three phases of a paint call run in the fixed order set-deltas,
\* draw items, frees: each phase is entered only from the end of the one
\* before it, the store does not change while render runs, so a texture
\* named in the call's own free list is still present for every mesh of the
\* call, and it is absent once the call has returned.
C1_PhaseOrder ==
    [][/\ (pc # "allocate_textures" /\ pc' = "allocate_textures") => pc = "idle"
       /\ (pc # "render" /\ pc' = "render")
             => pc = "allocate_textures" /\ i > Len(textures_delta.set)
       /\ (pc # "free_textures" /\ pc' = "free_textures")
             => pc = "render" /\ i > Len(clipped_primitives)
       /\ (pc # "idle" /\ pc' = "idle")
             => /\ pc = "free_textures" /\ i > Len(textures_delta.free)
                /\ image' # <<>>
                /\ Range(textures_delta.free) \cap DOMAIN textures' = {}
       /\ pc = "render" => textures' = textures
       /\ pc = "allocate_textures" => DOMAIN textures \subseteq DOMAIN textures'
       /\ (pc = "render" /\ i <= Len(clipped_primitives)
           /\ clipped_primitives[i].texture_id \in DOMAIN textures)
             => pc' # "panicked"
      ]_vars

\* a call is about to return that drew a mesh with a texture it also freed
C1_Witness ==
    /\ pc = "free_textures"
    /\ i > Len(textures_delta.free)
    /\ \E k \in 1..Len(clipped_primitives) :
          /\ clipped_primitives[k].kind = "Mesh"
          /\ clipped_primitives[k].texture_id \in Range(textures_delta.free)
          /\ clipped_primitives[k].texture_id \notin DOMAIN textures
          /\ clipped_primitives[k].texture_id \in freed
          /\ color[<<0, 0>>] # <<0, 0>>

\* C2: a set-delta for an identifier the store does not hold aborts the call
\* when it is a region patch, inserting nothing, and inserts a texture when
\* it is a whole image.
C2_AbsentDelta ==
    [][(/\ pc = "allocate_textures"
        /\ i <= Len(textures_delta.set)
        /\ textures_delta.set[i][1] \notin DOMAIN textures)
       => IF textures_delta.set[i][2].pos # <<>>
          THEN /\ pc' = "panicked"
               /\ err' = "Attempted partial update on absent texture"
               /\ textures' = textures
          ELSE /\ pc' = "allocate_textures"
               /\ i' = i + 1
               /\ DOMAIN textures' = DOMAIN textures \cup {textures_delta.set[i][1]}
      ]_vars

\* a patch on an absent identifier has aborted a call that had already
\* inserted a whole image
C2_Witness ==
    /\ pc = "panicked"
    /\ err = "Attempted partial update on absent texture"
    /\ textures_delta.set[i][2].pos # <<>>
    /\ textures_delta.set[i][1] \notin DOMAIN textures
    /\ DOMAIN textures # DOMAIN entry

\* C3: a mesh whose texture identifier is not in the store when it is drawn
\* aborts the call with "Mesh referenced absent texture" and no image is
\* returned.
C3_AbsentTexture ==
    [][(/\ pc = "render"
        /\ i <= Len(clipped_primitives)
        /\ clipped_primitives[i].kind = "Mesh"
        /\ clipped_primitives[i].texture_id \notin DOMAIN textures)
       => /\ pc' = "panicked"
          /\ err' = "Mesh referenced absent texture"
          /\ image' = <<>>
      ]_vars

\* the mesh named an identifier that an earlier call had freed
C3_Witness ==
    /\ pc = "panicked"
    /\ err = "Mesh referenced absent texture"
    /\ image = <<>>
    /\ clipped_primitives[i].texture_id \in freed
    /\ clipped_primitives[i].texture_id \notin DOMAIN entry

\* C4: an aborted paint call returns no image and leaves the texture store
\* as it was when the call was entered.
C4_Atomic ==
    pc = "panicked" => image = <<>> /\ textures = entry

-----------------------------------------------------------------------------
(* Claims about SoftwareTexture (SpecTexture: the one set-delta is for "T0") *)

TheDelta == textures_delta.set[1][2]
Applied == pc = "allocate_textures" /\ i = 2

\* the texture holds exactly the image: same size, every pixel the
\* image's pixel converted to Rgba
HoldsImage(tex, img) ==
    /\ tex.size = img.size
    /\ DOMAIN tex.pixels = Pixels(img.size)
    /\ \A p \in Pixels(img.size) : tex.pixels[p] = <<2 * img.pixels[p][1],
                                                    2 * img.pixels[p][2]>>

\* C5: after a whole-image delta is applied to an identifier that is unseen,
\* stored with the same size or stored with another size, and after a
\* full-image patch of identical content is applied to a texture created
\* from that image, the stored texture has the image's size and every
\* stored pixel is the image's pixel.
C5_WholeImage ==
    Applied =>
       /\ TheDelta.pos = <<>> => HoldsImage(textures["T0"], TheDelta.image)
       /\ (/\ TheDelta.pos = <<0, 0>>
           /\ "T0" \in DOMAIN entry
           /\ HoldsImage(entry["T0"], TheDelta.image))
          => HoldsImage(textures["T0"], TheDelta.image)

\* a whole image has replaced a texture of another size and other content
C5_Witness ==
    /\ Applied
    /\ TheDelta.pos = <<>>
    /\ "T0" \in DOMAIN entry
    /\ entry["T0"].size # TheDelta.image.size
    /\ TheDelta.image.size = <<MaxTexW, MaxTexH>>
    /\ \E p \in Pixels(TheDelta.image.size) : TheDelta.image.pixels[p] = GRAY32
    /\ textures["T0"] # entry["T0"]

\* the pixel is inside the sub-rectangle the patch covers
InPatch(p, delta) ==
    /\ delta.pos[1] <= p[1] /\ p[1] < delta.pos[1] + delta.image.size[1]
    /\ delta.pos[2] <= p[2] /\ p[2] < delta.pos[2] + delta.image.size[2]

\* C6: after a region patch that lies within an existing texture, every
\* stored pixel inside the patched sub-rectangle is the patch's pixel, every
\* stored pixel outside it is unchanged, and the size is unchanged.
C6_RegionPatch ==
    (Applied /\ TheDelta.pos # <<>> /\ "T0" \in DOMAIN entry)
    => /\ textures["T0"].size = entry["T0"].size
       /\ DOMAIN textures["T0"].pixels = DOMAIN entry["T0"].pixels
       /\ \A p \in Pixels(entry["T0"].size) :
             textures["T0"].pixels[p] =
                IF InPatch(p, TheDelta)
                THEN LET c == TheDelta.image.pixels[<<p[1] - TheDelta.pos[1],
                                                      p[2] - TheDelta.pos[2]>>]
                     IN  <<2 * c[1], 2 * c[2]>>
                ELSE entry["T0"].pixels[p]

\* a patch smaller than the texture, away from the origin, changed a pixel
\* and left another, different one alone
C6_Witness ==
    /\ Applied
    /\ "T0" \in DOMAIN entry
    /\ TheDelta.pos \notin {<<>>, <<0, 0>>}
    /\ TheDelta.image.size # entry["T0"].size
    /\ \E p, q \in Pixels(entry["T0"].size) :
          /\ InPatch(p, TheDelta) /\ textures["T0"].pixels[p] # entry["T0"].pixels[p]
          /\ ~InPatch(q, TheDelta) /\ textures["T0"].pixels[q] # textures["T0"].pixels[p]

-----------------------------------------------------------------------------
(* Claims about drawing *)

\* the pixel is inside the rectangle: inclusive min, exclusive max
InRect(s, p) ==
    /\ s.x <= p[1] /\ p[1] < s.x + s.width
    /\ s.y <= p[2] /\ p[2] < s.y + s.height

\* the item writes the pixel: a mesh that covers it, within its scissor
Writes(item, p) ==
    /\ item.kind = "Mesh"
    /\ p \in item.cover
    /\ InRect(from_clip_rect(screen_size, pixels_per_point, item.clip_rect), p)

\* the fragment of a mesh drawn with the stored (white) texture
Fragment(item) == item.vcolor
Opaque(item) == Fragment(item)[2] = 4
Transparent(item) == Fragment(item)[2] = 0

\* the packed pixel of an opaque fragment standing alone
OpaquePixel(item) == <<(Fragment(item)[1] + 1) \div 2, 2>>

\* the last of two opaque meshes that write the pixel, with no item writing
\* it afterwards, decides the pixel
LaterWins(items, buffer) ==
    \A p \in Pixels(screen_size) : \A j, k \in 1..Len(items) :
       (/\ j < k
        /\ Writes(items[j], p) /\ Opaque(items[j])
        /\ Writes(items[k], p) /\ Opaque(items[k])
        /\ \A m \in (k + 1)..Len(items) : ~Writes(items[m], p))
       => buffer[p] = OpaquePixel(items[k])

\* C7: the draw items are rendered one by one in list order, each into the
\* buffer the items before it left: a turn of the loop draws item i and
\* nothing else (pixels the item does not write keep their value, pixels it
\* writes hold its fragment blended over the value they had, the fragment
\* itself when it is opaque), and when the loop ends the later of two
\* opaque meshes on a pixel has decided it; the depth buffer plays no part.
C7_ListOrder ==
    [][/\ (pc = "render" /\ i <= Len(clipped_primitives) /\ pc' # "panicked")
          => /\ i' = i + 1
             /\ pc' = "render"
             /\ \A p \in Pixels(screen_size) :
                   color'[p] =
                      IF Writes(clipped_primitives[i], p)
                      THEN IF Opaque(clipped_primitives[i])
                           THEN OpaquePixel(clipped_primitives[i])
                           ELSE blend(color[p], Fragment(clipped_primitives[i]))
                      ELSE color[p]
       /\ (pc = "render" /\ pc' = "free_textures")
          => LaterWins(clipped_primitives, color')
      ]_vars

\* two opaque meshes of different colour wrote the origin; the second decided it
C7_Witness ==
    /\ pc = "free_textures"
    /\ Len(clipped_primitives) >= 2
    /\ \E j, k \in 1..Len(clipped_primitives) :
          /\ j < k
          /\ Writes(clipped_primitives[j], <<0, 0>>) /\ Opaque(clipped_primitives[j])
          /\ Writes(clipped_primitives[k], <<0, 0>>) /\ Opaque(clipped_primitives[k])
          /\ OpaquePixel(clipped_primitives[j]) # OpaquePixel(clipped_primitives[k])
          /\ \A m \in (k + 1)..Len(clipped_primitives) :
                ~Writes(clipped_primitives[m], <<0, 0>>)
          /\ color[<<0, 0>>] = OpaquePixel(clipped_primitives[k])
          /\ color[<<0, 0>>] # OpaquePixel(clipped_primitives[j])

\* C9: blending a fully transparent fragment over any pixel leaves the pixel
\* as it was, and blending a fully opaque fragment yields the fragment's
\* own pixel, whatever the pixel was before.
C9_BlendEnds ==
    [][(/\ pc = "render" /\ i <= Len(clipped_primitives) /\ pc' # "panicked")
       => \A p \in Pixels(screen_size) :
             Writes(clipped_primitives[i], p)
             => /\ Transparent(clipped_primitives[i]) => color'[p] = color[p]
                /\ Opaque(clipped_primitives[i])
                      => color'[p] = OpaquePixel(clipped_primitives[i])
      ]_vars

-----------------------------------------------------------------------------
(* Claims about Scissor (SpecScissor) *)

Built == pc \in {"view", "written", "read"}

\* C8: a write through the view reaches the buffer exactly when the pixel is
\* inside the view's rectangle (inclusive min, exclusive max) and is dropped
\* otherwise, leaving every other pixel alone; a read through the view
\* returns the buffer's pixel wherever it is.
C8_ScissorAccess ==
    /\ pc = "written"
       => color = [q \in Pixels(call.size) |->
                     IF q = result.p /\ InRect(sc, q) THEN result.texel
                                                      ELSE Inner(call.size)[q]]
    /\ pc = "read" => result.texel = color[result.p]

\* a write on the column just past the rectangle's max edge was dropped
C8_Witness ==
    /\ pc = "written"
    /\ sc.width > 0 /\ sc.height > 0
    /\ result.p[1] = sc.x + sc.width
    /\ sc.y <= result.p[2] /\ result.p[2] < sc.y + sc.height
    /\ color = Inner(call.size)
    /\ result.texel # color[result.p]

\* the clip rectangle misses the screen on the x axis / on the y axis
OutsideX(c) ==
    \/ c.pixels_per_point * c.clip_rect.max[1] <= 0
    \/ c.pixels_per_point * c.clip_rect.min[1] >= 4 * c.size[1]
OutsideY(c) ==
    \/ c.pixels_per_point * c.clip_rect.max[2] <= 0
    \/ c.pixels_per_point * c.clip_rect.min[2] >= 4 * c.size[2]
InvertedX(c) == c.clip_rect.min[1] > c.clip_rect.max[1]
InvertedY(c) == c.clip_rect.min[2] > c.clip_rect.max[2]
Malformed(c) == OutsideX(c) \/ OutsideY(c) \/ InvertedX(c) \/ InvertedY(c)

\* C10 as stated: a clip rectangle fully outside the screen, or inverted,
\* yields width = 0 and height = 0, no write, and no abort.
C10_ZeroByZero ==
    (Built /\ Malformed(call))
    => /\ sc.width = 0 /\ sc.height = 0
       /\ color = Inner(call.size)
       /\ clamp_ok(call.size, call.pixels_per_point, call.clip_rect)

\* C10 amended: a clip rectangle fully outside the screen, or inverted,
\* yields an empty rectangle: width = 0 when it is outside or inverted in
\* x, height = 0 when it is outside or inverted in y; no write through the
\* view reaches the buffer and nothing aborts.
C10_EmptyRect ==
    (Built /\ Malformed(call))
    => /\ (OutsideX(call) \/ InvertedX(call)) => sc.width = 0
       /\ (OutsideY(call) \/ InvertedY(call)) => sc.height = 0
       /\ sc.width = 0 \/ sc.height = 0
       /\ color = Inner(call.size)
       /\ clamp_ok(call.size, call.pixels_per_point, call.clip_rect)

\* a rectangle right of the screen kept its height, and a write was dropped
C10_Witness ==
    /\ pc = "written"
    /\ call.pixels_per_point * call.clip_rect.min[1] >= 4 * call.size[1]
    /\ ~OutsideY(call) /\ ~InvertedY(call) /\ ~InvertedX(call)
    /\ sc.width = 0
    /\ sc.height > 0
    /\ color = Inner(call.size)


\* the clip rectangle, scaled, is a rectangle within the screen
Inside(c) ==
    /\ 0 <= c.pixels_per_point * c.clip_rect.min[1]
    /\ c.clip_rect.min[1] <= c.clip_rect.max[1]
    /\ c.pixels_per_point * c.clip_rect.max[1] <= 4 * c.size[1]
    /\ 0 <= c.pixels_per_point * c.clip_rect.min[2]
    /\ c.clip_rect.min[2] <= c.clip_rect.max[2]
    /\ c.pixels_per_point * c.clip_rect.max[2] <= 4 * c.size[2]

\* k is the integer nearest to the non-negative n/4, a tie going up
Nearest(k, n) == 4 * k - 2 <= n /\ n < 4 * k + 2

\* C11: the rectangle from_clip_rect computes lies within the colour buffer
\* on both axes, 0 <= x <= x + width <= screen width and 0 <= y <= y + height
\* <= screen height, with no negative extent; for a clip rectangle within
\* the screen its four edges are the scaled corners rounded to the nearest
\* integer.  (Screen sizes are those an i32 holds.)
C11_RectWithinScreen ==
    Built =>
       /\ 0 <= sc.x /\ 0 <= sc.width /\ sc.x + sc.width <= call.size[1]
       /\ 0 <= sc.y /\ 0 <= sc.height /\ sc.y + sc.height <= call.size[2]
       /\ Inside(call) =>
             /\ Nearest(sc.x, call.pixels_per_point * call.clip_rect.min[1])
             /\ Nearest(sc.y, call.pixels_per_point * call.clip_rect.min[2])
             /\ Nearest(sc.x + sc.width,
                        call.pixels_per_point * call.clip_rect.max[1])
             /\ Nearest(sc.y + sc.height,
                        call.pixels_per_point * call.clip_rect.max[2])

\* a rectangle within the screen whose x edges fall on half pixels (0.5 and
\* 1.5) and were rounded away from zero
C11_Witness ==
    /\ Built
    /\ Inside(call)
    /\ call.pixels_per_point * call.clip_rect.min[1] = 2
    /\ call.pixels_per_point * call.clip_rect.max[1] = 6
    /\ sc.x = 1
    /\ sc.width = 1
    /\ sc.height > 0

-----------------------------------------------------------------------------
(* Claims about the texture store across calls *)

SetIds == {textures_delta.set[k][1] : k \in 1..Len(textures_delta.set)}

\* C12: when a paint call returns, an identifier is in the texture store if
\* and only if a set-delta was applied to it and no free naming it was
\* applied in that call or in a later one; the store changes only in
\* allocate_textures and in free_textures, never while render runs; and a
\* free naming an absent identifier changes nothing and does not abort.
C12_StoreLifecycle ==
    [][/\ pc' = "idle" => \A id \in TexIds : id \in DOMAIN textures' <=> id \in live'
       /\ textures' # textures
             => /\ pc \in {"allocate_textures", "free_textures"}
                /\ pc' = pc
                /\ i <= Len(IF pc = "allocate_textures" THEN textures_delta.set
                                                        ELSE textures_delta.free)
       /\ pc = "render" => textures' = textures
       /\ (/\ pc = "free_textures"
           /\ i <= Len(textures_delta.free)
           /\ textures_delta.free[i] \notin DOMAIN textures)
          => /\ textures' = textures
             /\ pc' = "free_textures"
             /\ i' = i + 1
             /\ err' = ""
      ]_vars

\* a call is about to return that created a texture, freed one the store
\* held, and named that one a second time when it was already absent
C12_Witness ==
    /\ pc = "free_textures"
    /\ i > Len(textures_delta.free)
    /\ Len(textures_delta.free) = 2
    /\ textures_delta.free[1] = textures_delta.free[2]
    /\ textures_delta.free[1] \in DOMAIN entry
    /\ textures_delta.free[1] \notin DOMAIN textures
    /\ \E id \in SetIds : id \notin DOMAIN entry /\ id \in DOMAIN textures
    /\ live = DOMAIN textures
    /\ live # {}

====
